---- MODULE Spec2Model ----
(***************************************************************************)
(* A model of gqnlib's dataset pipeline:                                   *)
(*   examples/convert_tfrecord_torch.py  (main, convert_record and the     *)
(*                                        record preprocessing), and       *)
(*   gqnlib/scene_dataset.py             (SceneDataset, transform_viewpoint)*)
(*   gqnlib/scheduler.py                 (Annealer)                        *)
(*                                                                         *)
(* File names are sequences of one-character strings, so that parsing and  *)
(* formatting are computed and not assumed.  A tensor is its shape plus    *)
(* the vector along its last axis (`row'); inputs are drawn from records   *)
(* whose camera pose is the same at every time step, so one row describes  *)
(* the whole tensor.  Angles are whole quarter turns, for which sin and    *)
(* cos are exact integers.                                                 *)
(***************************************************************************)
EXTENDS Integers, Sequences, FiniteSets, TLC

VARIABLES
    dataset_name,   \* args.dataset
    batch_size,     \* args.batch_size
    num_proc,       \* mp.cpu_count()
    tf_dir,         \* input directory: file name -> sequence of raw records
    record_list,    \* sorted(tf_dir.glob("*.tfrecord"))[:first_n]
    torch_dir,      \* output directory: file name -> file
    main_pc,        \* position of main()
    taskqueue,      \* chunks of pool.map not yet taken by a worker
    worker,         \* per pool process: its chunk, position and locals
    number_left,    \* MapResult._number_left
    success,        \* MapResult._success
    io_faults,      \* write failures injected so far
    loaded,         \* result of the last SceneDataset.__getitem__ call
    fn_in,          \* input of the pure function under test
    fn_out,         \* its output
    annealer,       \* an Annealer object: init, final, steps, t, current
    returned        \* the values its __next__ calls returned, in order

vars == <<dataset_name, batch_size, num_proc, tf_dir, record_list, torch_dir,
          main_pc, taskqueue, worker, number_left, success, io_faults,
          loaded, fn_in, fn_out, annealer, returned>>

pipe_vars == <<dataset_name, batch_size, num_proc, tf_dir, record_list,
               torch_dir, main_pc, taskqueue, worker, number_left, success,
               io_faults, loaded>>

----------------------------------------------------------------------------
(* Bounds of the model *)

MaxShards == 5
MaxProc == 2
MaxBatch == 2
MaxRecords == 2
MaxIOFaults == 1
MaxDigits == 3
MaxCoord == 1
MaxValue == 2
MaxSteps == 4
MaxCalls == 6

----------------------------------------------------------------------------
(* Sequences and arithmetic *)

Min(a, b) == IF a <= b THEN a ELSE b

RECURSIVE Prod(_)
Prod(s) == IF s = <<>> THEN 1 ELSE Head(s) * Prod(Tail(s))

Range(s) == {s[i] : i \in DOMAIN s}

Take(s, n) == SubSeq(s, 1, Min(n, Len(s)))

\* the least index of s holding c, 0 when there is none
FirstIndex(s, c) ==
    IF \E i \in DOMAIN s : s[i] = c
    THEN CHOOSE i \in DOMAIN s : s[i] = c /\ \A j \in 1..(i - 1) : s[j] # c
    ELSE 0

\* the greatest index of s holding c, 0 when there is none
LastIndex(s, c) ==
    IF \E i \in DOMAIN s : s[i] = c
    THEN CHOOSE i \in DOMAIN s :
            s[i] = c /\ \A j \in (i + 1)..Len(s) : s[j] # c
    ELSE 0

----------------------------------------------------------------------------
(* Dataset catalog *)

_NUM_CHANNELS == 3
_NUM_RAW_CAMERA_PARAMS == 5

_DATASETS ==
    [jaco |-> [frame_size |-> 64, sequence_size |-> 11],
     mazes |-> [frame_size |-> 84, sequence_size |-> 300],
     rooms_free_camera_with_object_rotations |->
         [frame_size |-> 128, sequence_size |-> 10],
     rooms_ring_camera |-> [frame_size |-> 64, sequence_size |-> 10],
     rooms_free_camera_no_object_rotations |->
         [frame_size |-> 64, sequence_size |-> 10],
     shepard_metzler_5_parts |-> [frame_size |-> 64, sequence_size |-> 15],
     shepard_metzler_7_parts |-> [frame_size |-> 64, sequence_size |-> 15]]

DatasetNames == DOMAIN _DATASETS

----------------------------------------------------------------------------
(* File names *)

Digits == <<"0", "1", "2", "3", "4", "5", "6", "7", "8", "9">>

DigitVal(c) == (CHOOSE i \in DOMAIN Digits : Digits[i] = c) - 1

\* pathlib's PurePath.stem: the name without its last suffix
Stem(name) ==
    LET i == LastIndex(name, ".")
    IN  IF 0 < i - 1 /\ i < Len(name) THEN SubSeq(name, 1, i - 1) ELSE name

\* s.split("-")[0]
SplitFirst(s) ==
    LET i == FirstIndex(s, "-")
    IN  IF i = 0 THEN s ELSE SubSeq(s, 1, i - 1)

\* int(s) of a string of decimal digits
RECURSIVE ParseInt(_)
ParseInt(s) ==
    IF s = <<>> THEN 0
    ELSE 10 * ParseInt(SubSeq(s, 1, Len(s) - 1)) + DigitVal(s[Len(s)])

\* f"{n}" of a natural number
RECURSIVE IntToStr(_)
IntToStr(n) ==
    IF n < 10 THEN <<Digits[n + 1]>>
    ELSE IntToStr(n \div 10) \o <<Digits[(n % 10) + 1]>>

PtGz == <<".", "p", "t", ".", "g", "z">>

\* convert_record: base_name and the name of save_path
SaveNameOff(path) == SplitFirst(Stem(path)) \o PtGz

\* the last "-"-separated field in place of the first
SaveNameLast(path) ==
    LET stem == Stem(path)
        i == LastIndex(stem, "-")
    IN  IntToStr(ParseInt(SubSeq(stem, i + 1, Len(stem)))) \o PtGz

SaveName(path) == IntToStr(ParseInt(SplitFirst(Stem(path)))) \o PtGz

\* SceneDataset.__getitem__: filename
LoadName(index) == IntToStr(index) \o PtGz

----------------------------------------------------------------------------
(* Tensors: a shape and the vectors along the last axis.  `rows' holds one  *)
(* vector per stacked record; within a record every time step holds the    *)
(* same vector.                                                            *)

Tensor(shape, rows) == [shape |-> shape, rows |-> rows]

Rank(t) == Len(t.shape)

LastDim(t) == t.shape[Len(t.shape)]

WithLastDim(shape, n) ==
    [i \in DOMAIN shape |-> IF i = Len(shape) THEN n ELSE shape[i]]

\* the product of the entries of a requested shape other than its -1
Known(new) == Prod([i \in DOMAIN new |-> IF new[i] = -1 THEN 1 ELSE new[i]])

\* tf.reshape of a shape, the -1 entry inferred
ReshapeShape(shape, new) ==
    [i \in DOMAIN new |->
        IF new[i] = -1 THEN Prod(shape) \div Known(new) ELSE new[i]]

\* tf.reshape of a flat array of repeated rows: each row is cut to the new
\* last axis
Reshape(t, new) ==
    LET s == ReshapeShape(t.shape, new)
    IN  Tensor(s, [r \in DOMAIN t.rows |-> Take(t.rows[r], s[Len(s)])])

\* t[..., a:b]
Slice(t, a, b) ==
    Tensor(WithLastDim(t.shape, b - a),
           [r \in DOMAIN t.rows |-> SubSeq(t.rows[r], a + 1, b)])

\* concatenation of two tensors along the last axis
Cat2(t, u) ==
    Tensor(WithLastDim(t.shape, LastDim(t) + LastDim(u)),
           [r \in DOMAIN t.rows |-> t.rows[r] \o u.rows[r]])

RECURSIVE Cat(_)
Cat(ts) == IF Len(ts) = 1 THEN ts[1] ELSE Cat2(ts[1], Cat(Tail(ts)))

\* sin and cos of an angle given in quarter turns
Sin(q) == <<0, 1, 0, -1>>[(q % 4) + 1]

Cos(q) == <<1, 0, -1, 0>>[(q % 4) + 1]

TSin(t) ==
    Tensor(t.shape,
           [r \in DOMAIN t.rows |->
               [i \in DOMAIN t.rows[r] |-> Sin(t.rows[r][i])]])

TCos(t) ==
    Tensor(t.shape,
           [r \in DOMAIN t.rows |->
               [i \in DOMAIN t.rows[r] |-> Cos(t.rows[r][i])]])

\* torch.split(t, size, dim=-1): chunks of `size' along the last axis, the
\* last one shorter when the axis is not a multiple of size
Split(t, size) ==
    LET n == LastDim(t)
        k == (n + size - 1) \div size
    IN  [c \in 1..k |-> Slice(t, (c - 1) * size, Min(c * size, n))]

\* torch.stack of a non-empty list of tensors of one shape
RECURSIVE JoinRows(_)
JoinRows(ts) == IF ts = <<>> THEN <<>> ELSE Head(ts).rows \o JoinRows(Tail(ts))

Stack(ts) == Tensor(<<Len(ts)>> \o ts[1].shape, JoinRows(ts))

\* Tensor.permute(dims) of a tensor with Len(dims) axes; the content is
\* rearranged, not changed
Permute(t, dims) ==
    Tensor([i \in DOMAIN dims |-> t.shape[dims[i] + 1]], t.rows)

----------------------------------------------------------------------------
(* gqnlib/scene_dataset.py: transform_viewpoint *)

NoTensor == Tensor(<<>>, <<>>)

Raise(e) == [error |-> e, images |-> NoTensor, viewpoints |-> NoTensor]

transform_viewpoint(viewpoints) ==
    LET chunks == Split(viewpoints, 3)
    IN  IF Len(chunks) # 2 THEN Raise("ValueError")
        ELSE LET pos == chunks[1]
                 tmp == Split(chunks[2], 1)
                 yaw == tmp[1]
                 pitch == tmp[2]
             IN  IF Len(tmp) # 2 THEN Raise("ValueError")
                 ELSE [error |-> "none", images |-> NoTensor,
                       viewpoints |->
                           Cat(<<pos, TCos(yaw), TSin(yaw),
                                 TCos(pitch), TSin(pitch)>>)]

----------------------------------------------------------------------------
(* examples/convert_tfrecord_torch.py: one raw record to one Scene *)

\* A raw record: `frames' JPEG payloads, each decoding to an image of shape
\* `jpeg', and `cameras' floats that repeat `pose'.
RawRecord(id, nframes, jpeg, ncameras, pose) ==
    [id |-> id, frames |-> nframes, jpeg |-> jpeg, cameras |-> ncameras,
     pose |-> pose]

\* tf.io.parse_single_example with the two FixedLenFeature shapes
ParseOk(dataset_info, raw_data) ==
    /\ raw_data.frames = dataset_info.sequence_size
    /\ raw_data.cameras =
           dataset_info.sequence_size * _NUM_RAW_CAMERA_PARAMS

\* frames carry the id of the record they were decoded from in place of pixels
_preprocess_frames(dataset_info, example) ==
    LET decoded == <<example.frames>> \o example.jpeg
        dims == <<dataset_info.frame_size, dataset_info.frame_size,
                  _NUM_CHANNELS>>
        frames == ReshapeShape(decoded,
                               <<-1, dataset_info.sequence_size>> \o dims)
    IN  IF dataset_info.frame_size # 64
        THEN LET flat == ReshapeShape(frames, <<-1>> \o dims)
                 resized == <<flat[1], 64, 64, flat[4]>>
             IN  Tensor(ReshapeShape(resized,
                            <<-1, dataset_info.sequence_size, 64, 64,
                              _NUM_CHANNELS>>),
                        <<<<example.id>>>>)
        ELSE Tensor(frames, <<<<example.id>>>>)

_preprocess_cameras(dataset_info, example) ==
    LET raw_pose_params ==
            Reshape(Tensor(<<example.cameras>>, <<example.pose>>),
                    <<-1, dataset_info.sequence_size,
                      _NUM_RAW_CAMERA_PARAMS>>)
        pos == Slice(raw_pose_params, 0, 3)
        yaw == Slice(raw_pose_params, 3, 4)
        pitch == Slice(raw_pose_params, 4, 5)
    IN  Cat(<<pos, TSin(yaw), TCos(yaw), TSin(pitch), TCos(pitch)>>)

\* Scene(frames=..., cameras=...) of a record that parses
convert_raw_to_gzip(dataset_info, raw_data) ==
    [frames |-> _preprocess_frames(dataset_info, raw_data),
     cameras |-> _preprocess_cameras(dataset_info, raw_data)]

----------------------------------------------------------------------------
(* gqnlib/scene_dataset.py: SceneDataset over the directory torch_dir *)

File(complete, scenes) == [complete |-> complete, scenes |-> scenes]

\* len(list(self.root_dir.iterdir()))
__len__(root_dir) == Cardinality(DOMAIN root_dir)

__getitem__(root_dir, index) ==
    LET filename == LoadName(index)
    IN  IF filename \notin DOMAIN root_dir THEN Raise("FileNotFoundError")
        ELSE IF ~root_dir[filename].complete THEN Raise("EOFError")
        ELSE LET dataset == root_dir[filename].scenes
             IN  IF dataset = <<>> THEN Raise("RuntimeError")
                 ELSE LET images ==
                              Stack([i \in DOMAIN dataset |->
                                        dataset[i].frames])
                          viewpoints ==
                              Stack([i \in DOMAIN dataset |->
                                        dataset[i].cameras])
                          view == transform_viewpoint(viewpoints)
                      IN  IF Rank(images) # 5 THEN Raise("RuntimeError")
                          ELSE IF view.error # "none" THEN view
                          ELSE [error |-> "none",
                                images |-> Permute(images, <<0, 1, 4, 2, 3>>),
                                viewpoints |-> view.viewpoints]

----------------------------------------------------------------------------
(* gqnlib/scheduler.py: Annealer.  Its values are exact fractions num/den   *)
(* with den > 0, so that t / steps is the true division of the code.       *)

Frac(num, den) == [num |-> num, den |-> den]

FracAdd(a, b) == Frac(a.num * b.den + b.num * a.den, a.den * b.den)

FracSub(a, b) == Frac(a.num * b.den - b.num * a.den, a.den * b.den)

FracMul(a, b) == Frac(a.num * b.num, a.den * b.den)

FracLeq(a, b) == a.num * b.den <= b.num * a.den

FracEq(a, b) == a.num * b.den = b.num * a.den

\* max(a, b) of Python: b only when it is greater than a
FracMax(a, b) == IF FracLeq(b, a) THEN a ELSE b

\* no Annealer has been built
NoAnnealer == [init |-> Frac(0, 1), final |-> Frac(0, 1), steps |-> 0,
               t |-> 0, current |-> Frac(0, 1)]

\* Annealer.__init__
NewAnnealer(init, final, steps) ==
    [init |-> init, final |-> final, steps |-> steps, t |-> 0,
     current |-> init]

\* the interpolation without the max against final
AnnealValueNoMax(self, t) ==
    FracAdd(self.final,
            FracMul(FracSub(self.init, self.final),
                    FracSub(Frac(1, 1), Frac(t, self.steps))))

\* Annealer.__next__: the value computed for the incremented counter t
AnnealValue(self, t) ==
    FracMax(FracAdd(self.final,
                    FracMul(FracSub(self.init, self.final),
                            FracSub(Frac(1, 1), Frac(t, self.steps)))),
            self.final)

----------------------------------------------------------------------------
(* The input directory *)

TfRecord == <<".", "t", "f", "r", "e", "c", "o", "r", "d">>

\* "<ordinal>-of-900" with the ordinal zero-padded to three digits
ShardStem(ordinal) ==
    <<Digits[((ordinal \div 100) % 10) + 1],
      Digits[((ordinal \div 10) % 10) + 1],
      Digits[(ordinal % 10) + 1]>> \o <<"-", "o", "f", "-", "9", "0", "0">>

InputName(ordinal) == ShardStem(ordinal) \o TfRecord

PoseOf(i, j) == <<i, j, i + j, (i + j) % 4, (i + 2 * j) % 4>>

\* record j of shard i; the record named by `bad' lacks one camera value
RecordOf(info, i, j, bad) ==
    RawRecord(<<i, j>>, info.sequence_size,
              <<info.frame_size, info.frame_size, _NUM_CHANNELS>>,
              IF bad = <<i, j>>
              THEN info.sequence_size * _NUM_RAW_CAMERA_PARAMS - 1
              ELSE info.sequence_size * _NUM_RAW_CAMERA_PARAMS,
              PoseOf(i, j))

\* the input directories: shards 1..n of nrec records each, at most one
\* malformed record
InputDir(info, n, nrec, bad) ==
    [name \in {InputName(i) : i \in 1..n} |->
        LET i == CHOOSE k \in 1..n : InputName(k) = name
        IN  [j \in 1..nrec |-> RecordOf(info, i, j, bad)]]

----------------------------------------------------------------------------
(* examples/convert_tfrecord_torch.py: main and the pool, convert_record *)

Workers == 1..num_proc

Idle == [pc |-> "idle", chunk |-> <<>>, pos |-> 0, scene_list |-> <<>>,
         save_path |-> <<>>]

\* Pool._map_async: the default chunksize
ChunkSize(len, processes) ==
    IF len = 0 THEN 0
    ELSE (len \div (processes * 4))
         + (IF len % (processes * 4) # 0 THEN 1 ELSE 0)

\* Pool._get_tasks: consecutive slices of `size' items
Chunks(items, size) ==
    IF size = 0 THEN <<>>
    ELSE [c \in 1..((Len(items) + size - 1) \div size) |->
             SubSeq(items, (c - 1) * size + 1, Min(c * size, Len(items)))]

NoResult == [index |-> -1, result |-> Raise("none")]

\* the shard sizes and pool sizes of the model
Shapes == {<<n, p>> \in (1..MaxShards) \X (1..MaxProc) : n * p <= MaxShards}

Init ==
    /\ dataset_name \in DatasetNames
    /\ batch_size \in 1..MaxBatch
    /\ \E sh \in Shapes, nrec \in 0..MaxRecords :
         \E bad \in {<<0, 0>>} \cup ((1..sh[1]) \X (1..nrec)) :
            /\ num_proc = sh[2]
            /\ tf_dir = InputDir(_DATASETS[dataset_name], sh[1], nrec, bad)
            /\ record_list = [i \in 1..sh[1] |-> InputName(i)]
    /\ torch_dir = <<>>
    /\ main_pc = "start"
    /\ taskqueue = <<>>
    /\ worker = [w \in Workers |-> Idle]
    /\ number_left = 0
    /\ success = TRUE
    /\ io_faults = 0
    /\ loaded = NoResult
    /\ fn_in = [kind |-> "none"]
    /\ fn_out = [op |-> "none"]
    /\ annealer = NoAnnealer
    /\ returned = <<>>

\* main: pool.map(f, record_list)
PoolMap ==
    /\ main_pc = "start"
    /\ LET chunks == Chunks(record_list,
                            ChunkSize(Len(record_list), num_proc))
       IN  /\ taskqueue' = chunks
           /\ number_left' = Len(chunks)
    /\ main_pc' = "map"
    /\ UNCHANGED <<dataset_name, batch_size, num_proc, tf_dir, record_list,
                   torch_dir, worker, success, io_faults, loaded, fn_in,
                   fn_out, annealer, returned>>

\* a pool process takes the next chunk
GetTask(w) ==
    /\ main_pc = "map"
    /\ worker[w].pc = "idle"
    /\ taskqueue # <<>>
    /\ worker' = [worker EXCEPT ![w] =
                     [Idle EXCEPT !.pc = "convert",
                                  !.chunk = Head(taskqueue), !.pos = 1]]
    /\ taskqueue' = Tail(taskqueue)
    /\ UNCHANGED <<dataset_name, batch_size, num_proc, tf_dir, record_list,
                   torch_dir, main_pc, number_left, success, io_faults,
                   loaded, fn_in, fn_out, annealer, returned>>

\* for raw_data in dataset.take(batch_size)
TakenOff(path) == Take(tf_dir[path], batch_size + 1)

Taken(path) == Take(tf_dir[path], batch_size)

\* convert_record up to the save: the records are read and preprocessed; a
\* record that does not parse raises, which ends the worker's whole chunk
ConvertRead(w) ==
    /\ worker[w].pc = "convert"
    /\ LET path == worker[w].chunk[worker[w].pos]
           dataset_info == _DATASETS[dataset_name]
           taken == Taken(path)
       IN  IF \A i \in DOMAIN taken : ParseOk(dataset_info, taken[i])
           THEN /\ worker' = [worker EXCEPT ![w] =
                    [@ EXCEPT !.pc = "open",
                              !.scene_list =
                                  [i \in DOMAIN taken |->
                                      convert_raw_to_gzip(dataset_info,
                                                          taken[i])],
                              !.save_path = SaveName(path)]]
                /\ UNCHANGED <<number_left, success>>
           ELSE /\ worker' = [worker EXCEPT ![w] = Idle]
                /\ number_left' = number_left - 1
                /\ success' = FALSE
    /\ UNCHANGED <<dataset_name, batch_size, num_proc, tf_dir, record_list,
                   torch_dir, main_pc, taskqueue, io_faults, loaded, fn_in,
                   fn_out, annealer, returned>>

\* gzip.open(str(save_path), "wb"): the file exists and is empty
ConvertOpen(w) ==
    /\ worker[w].pc = "open"
    /\ torch_dir' = (worker[w].save_path :> File(FALSE, <<>>)) @@ torch_dir
    /\ worker' = [worker EXCEPT ![w].pc = "save"]
    /\ UNCHANGED <<dataset_name, batch_size, num_proc, tf_dir, record_list,
                   main_pc, taskqueue, number_left, success, io_faults,
                   loaded, fn_in, fn_out, annealer, returned>>

\* torch.save(scene_list, f) and the end of the with block; then the next
\* item of the chunk, or the chunk's result
ConvertSave(w) ==
    /\ worker[w].pc = "save"
    /\ torch_dir' = (worker[w].save_path :> File(TRUE, worker[w].scene_list))
                        @@ torch_dir
    /\ IF worker[w].pos < Len(worker[w].chunk)
       THEN /\ worker' = [worker EXCEPT ![w] =
                    [Idle EXCEPT !.pc = "convert", !.chunk = worker[w].chunk,
                                 !.pos = worker[w].pos + 1]]
            /\ UNCHANGED number_left
       ELSE /\ worker' = [worker EXCEPT ![w] = Idle]
            /\ number_left' = number_left - 1
    /\ UNCHANGED <<dataset_name, batch_size, num_proc, tf_dir, record_list,
                   main_pc, taskqueue, success, io_faults, loaded, fn_in,
                   fn_out, annealer, returned>>

\* torch.save raises part-way (the disk is full, the process is interrupted):
\* the with block closes the file as it is and the chunk fails
SaveFail(w) ==
    /\ worker[w].pc = "save"
    /\ io_faults < MaxIOFaults
    /\ io_faults' = io_faults + 1
    /\ worker' = [worker EXCEPT ![w] = Idle]
    /\ number_left' = number_left - 1
    /\ success' = FALSE
    /\ UNCHANGED <<dataset_name, batch_size, num_proc, tf_dir, record_list,
                   torch_dir, main_pc, taskqueue, loaded, fn_in, fn_out, annealer, returned>>

\* pool.map returns once every chunk has reported, when none failed
MainReturn ==
    /\ main_pc = "map"
    /\ number_left = 0
    /\ success
    /\ main_pc' = "returned"
    /\ UNCHANGED <<dataset_name, batch_size, num_proc, tf_dir, record_list,
                   torch_dir, taskqueue, worker, number_left, success,
                   io_faults, loaded, fn_in, fn_out, annealer, returned>>

\* pool.map re-raises the first failure once every chunk has reported
MainRaise ==
    /\ main_pc = "map"
    /\ number_left = 0
    /\ ~success
    /\ main_pc' = "raised"
    /\ UNCHANGED <<dataset_name, batch_size, num_proc, tf_dir, record_list,
                   torch_dir, taskqueue, worker, number_left, success,
                   io_faults, loaded, fn_in, fn_out, annealer, returned>>

\* SceneDataset(torch_dir)[index], for an index up to len(dataset)
GetItem ==
    /\ main_pc \in {"returned", "raised"}
    /\ \E index \in 0..__len__(torch_dir) :
          loaded' = [index |-> index, result |-> __getitem__(torch_dir, index)]
    /\ UNCHANGED <<dataset_name, batch_size, num_proc, tf_dir, record_list,
                   torch_dir, main_pc, taskqueue, worker, number_left,
                   success, io_faults, fn_in, fn_out, annealer, returned>>

Next ==
    \/ PoolMap
    \/ \E w \in Workers : GetTask(w)
    \/ \E w \in Workers : ConvertRead(w)
    \/ \E w \in Workers : ConvertOpen(w)
    \/ \E w \in Workers : ConvertSave(w)
    \/ \E w \in Workers : SaveFail(w)
    \/ MainReturn
    \/ MainRaise
    \/ GetItem

Spec == Init /\ [][Next]_vars

----------------------------------------------------------------------------
(* The pure functions on their own: a file name to its output name, a raw  *)
(* pose through the two viewpoint transforms                               *)

Ext == <<".", "e", "x", "t">>

DigitStrings == UNION {[1..n -> Range(Digits)] : n \in 1..MaxDigits}

NameInputs ==
    {[kind |-> "name", prefix |-> p,
      name |-> p \o <<"-", "o", "f", "-", "9", "0", "0">> \o e] :
        p \in DigitStrings, e \in {TfRecord, Ext}}

Coords == (-MaxCoord)..MaxCoord

PoseInputs ==
    {[kind |-> "pose", dataset |-> d, pose |-> <<x, y, z, yaw, pitch>>] :
        d \in DatasetNames, x \in Coords, y \in Coords, z \in Coords,
        yaw \in 0..3, pitch \in 0..3}

InitFn ==
    /\ fn_in \in NameInputs \cup PoseInputs
    /\ fn_out = [op |-> "none"]
    /\ annealer = NoAnnealer
    /\ returned = <<>>
    /\ dataset_name = "shepard_metzler_5_parts"
    /\ batch_size = 1
    /\ num_proc = 1
    /\ tf_dir = <<>>
    /\ record_list = <<>>
    /\ torch_dir = <<>>
    /\ main_pc = "none"
    /\ taskqueue = <<>>
    /\ worker = [w \in 1..1 |-> Idle]
    /\ number_left = 0
    /\ success = TRUE
    /\ io_faults = 0
    /\ loaded = NoResult

ApplySaveName ==
    /\ fn_in.kind = "name"
    /\ fn_out' = [op |-> "SaveName", val |-> SaveName(fn_in.name)]
    /\ UNCHANGED <<pipe_vars, fn_in, annealer, returned>>

\* the loader's transform of a (sequence_size, 5) tensor of raw poses
ApplyTransformViewpoint ==
    /\ fn_in.kind = "pose"
    /\ fn_out' =
          [op |-> "transform_viewpoint",
           val |-> transform_viewpoint(
                       Tensor(<<_DATASETS[fn_in.dataset].sequence_size,
                                _NUM_RAW_CAMERA_PARAMS>>,
                              <<fn_in.pose>>)).viewpoints]
    /\ UNCHANGED <<pipe_vars, fn_in, annealer, returned>>

\* the converter's transform of the record's flat camera array
ApplyPreprocessCameras ==
    /\ fn_in.kind = "pose"
    /\ LET info == _DATASETS[fn_in.dataset]
       IN  fn_out' =
              [op |-> "_preprocess_cameras",
               val |-> _preprocess_cameras(info,
                           RawRecord(<<1, 1>>, info.sequence_size,
                               <<info.frame_size, info.frame_size,
                                 _NUM_CHANNELS>>,
                               info.sequence_size * _NUM_RAW_CAMERA_PARAMS,
                               fn_in.pose))]
    /\ UNCHANGED <<pipe_vars, fn_in, annealer, returned>>

NextFn ==
    \/ ApplySaveName
    \/ ApplyTransformViewpoint
    \/ ApplyPreprocessCameras

SpecFn == InitFn /\ [][NextFn]_vars

----------------------------------------------------------------------------
(* Properties *)

Info == _DATASETS[dataset_name]

\* the input shard behind the output file of index i
ShardOf(i) == tf_dir[InputName(i)]

Written(i) ==
    /\ LoadName(i) \in DOMAIN torch_dir
    /\ torch_dir[LoadName(i)].complete

\* the 7-vector the spec gives for a raw pose
SinCos(pose) ==
    <<pose[1], pose[2], pose[3], Sin(pose[4]), Cos(pose[4]),
      Sin(pose[5]), Cos(pose[5])>>

\* C1: a shard of k records, 1 <= k <= batch_size, converted and then loaded
\* with its index, loads without an error and gives k records: frames of shape
\* (k, sequence_size, 64, 64, 3) up to the loader's channel permutation, and
\* viewpoints of shape (k, sequence_size, 7).
C1_RoundTrip ==
    \A i \in 1..Len(record_list) :
        (/\ loaded.index = i
         /\ Written(i)
         /\ Len(ShardOf(i)) \in 1..batch_size)
        => LET k == Len(ShardOf(i))
           IN  /\ loaded.result.error = "none"
               /\ loaded.result.images.shape =
                      <<k, Info.sequence_size, _NUM_CHANNELS, 64, 64>>
               /\ loaded.result.viewpoints.shape =
                      <<k, Info.sequence_size, 7>>

\* C2: at every point of a conversion, also after an aborted or failed one,
\* the final output path holds no file or the complete serialized shard.
C2_AllOrNothing ==
    \A name \in DOMAIN torch_dir : torch_dir[name].complete

\* a shard whose own conversion can succeed: the records it reads all parse
Convertible(path) ==
    \A j \in DOMAIN Taken(path) : ParseOk(Info, Taken(path)[j])

\* C3: when the conversion of one shard of the list fails (here on a
\* malformed record, with no write failure), every other shard of the list is
\* still converted to a valid output file, and the driver raises only after
\* all tasks have finished.
C3_FailuresIsolated ==
    (main_pc = "raised" /\ io_faults = 0) =>
        /\ \A w \in Workers : worker[w].pc = "idle"
        /\ taskqueue = <<>>
        /\ \A i \in 1..Len(record_list) :
              Convertible(record_list[i]) => Written(i)

Writing(w) == worker[w].pc \in {"open", "save"}

\* C4: with N shards converted on a pool of any size, no two workers write
\* the same output path (never at the same time, and no path is opened that
\* an earlier task already wrote), and once the driver returns there are
\* exactly N output files, one per input shard.
C4_DistinctOutputs ==
    /\ [](\A w1 \in Workers, w2 \in Workers :
             (w1 # w2 /\ Writing(w1) /\ Writing(w2))
             => worker[w1].save_path # worker[w2].save_path)
    /\ [][\A w \in Workers :
             (worker[w].pc = "open" /\ worker'[w].pc = "save")
             => worker[w].save_path \notin DOMAIN torch_dir]_vars
    /\ [](main_pc = "returned" =>
             /\ __len__(torch_dir) = Len(record_list)
             /\ \A i \in 1..Len(record_list) : Written(i))

\* two pool processes are writing their shards at the same time
C4_Witness ==
    /\ num_proc = 2
    /\ \A w \in Workers : worker[w].pc = "save"

\* a digit string without its leading zeros
RECURSIVE StripZeros(_)
StripZeros(p) ==
    IF Len(p) > 1 /\ Head(p) = "0" THEN StripZeros(Tail(p)) ELSE p

\* C5: the output name is the input name's numeric prefix before the first
\* "-", leading zeros dropped, followed by ".pt.gz": "042-of-900.<ext>" gives
\* "42.pt.gz" and "001-of-900.tfrecord" gives "1.pt.gz".
C5_OutputName ==
    fn_out.op = "SaveName" =>
        /\ fn_out.val = StripZeros(fn_in.prefix) \o PtGz
        /\ fn_in.prefix = <<"0", "4", "2">> => fn_out.val = <<"4", "2">> \o PtGz
        /\ fn_in.prefix = <<"0", "0", "1">> => fn_out.val = <<"1">> \o PtGz

C5_Witness ==
    /\ fn_in.kind = "name"
    /\ fn_in.prefix = <<"0", "4", "2">>
    /\ fn_in.name = <<"0", "4", "2", "-", "o", "f", "-", "9", "0", "0">> \o Ext
    /\ fn_out.op = "SaveName"
    /\ fn_out.val = <<"4", "2", ".", "p", "t", ".", "g", "z">>

\* C6: the load-time transform and the conversion-time transform both return
\* (x, y, z, sin(yaw), cos(yaw), sin(pitch), cos(pitch)) for a raw pose.
C6_SameOrder ==
    fn_out.op \in {"transform_viewpoint", "_preprocess_cameras"} =>
        /\ LastDim(fn_out.val) = 7
        /\ fn_out.val.rows = <<SinCos(fn_in.pose)>>

\* the viewpoints stored in a shard file, stacked
StoredViewpoints(i) ==
    LET dataset == torch_dir[LoadName(i)].scenes
    IN  Stack([j \in DOMAIN dataset |-> dataset[j].cameras])

\* C7: the viewpoint transform is applied once, at conversion: what
\* __getitem__ returns for a written shard are the stored 7-dimensional
\* viewpoints, not transformed again.
C7_TransformOnce ==
    \A i \in 1..Len(record_list) :
        (/\ loaded.index = i
         /\ Written(i)
         /\ torch_dir[LoadName(i)].scenes # <<>>)
        => /\ loaded.result.error = "none"
           /\ loaded.result.viewpoints.rows = StoredViewpoints(i).rows
           /\ LastDim(loaded.result.viewpoints) = 7

\* C8: every stored Scene has frames of shape (sequence_length, 64, 64, 3)
\* and cameras of shape (sequence_length, 7), with no extra leading axis.
C8_SceneShapes ==
    \A name \in DOMAIN torch_dir :
        \A j \in DOMAIN torch_dir[name].scenes :
            LET scene == torch_dir[name].scenes[j]
            IN  /\ scene.frames.shape =
                       <<Info.sequence_size, 64, 64, _NUM_CHANNELS>>
                /\ scene.cameras.shape = <<Info.sequence_size, 7>>

WellFormed(path) ==
    \A j \in DOMAIN tf_dir[path] : ParseOk(Info, tf_dir[path][j])

\* scene j of a list is made from record j of the shard
FirstRecords(scenes, path) ==
    /\ Len(scenes) = Min(Len(tf_dir[path]), batch_size)
    /\ \A j \in DOMAIN scenes :
          /\ scenes[j].frames.rows = <<<<tf_dir[path][j].id>>>>
          /\ scenes[j].cameras.rows = <<SinCos(tf_dir[path][j].pose)>>

\* C9: on a shard of n well-formed records convert_record reads without an
\* error and writes exactly min(n, batch_size) scenes, made from the first
\* min(n, batch_size) records in file order.
C9_FirstBatch ==
    /\ [](\A i \in 1..Len(record_list) :
             (WellFormed(InputName(i)) /\ Written(i))
             => FirstRecords(torch_dir[LoadName(i)].scenes, InputName(i)))
    /\ [][\A w \in Workers :
             (/\ worker[w].pc = "convert"
              /\ WellFormed(worker[w].chunk[worker[w].pos])
              /\ worker'[w] # worker[w])
             => /\ worker'[w].pc = "open"
                /\ FirstRecords(worker'[w].scene_list,
                                worker[w].chunk[worker[w].pos])
                /\ success' = success]_vars

\* a written shard whose input held more records than batch_size
C9_Witness ==
    \E i \in 1..Len(record_list) :
        /\ WellFormed(InputName(i))
        /\ Written(i)
        /\ Len(ShardOf(i)) > batch_size
        /\ Len(torch_dir[LoadName(i)].scenes) = batch_size

\* C10: when the directory holds the files written for ordinals 1..N, every
\* index of range(len(dataset)) names an existing file in __getitem__, and
\* every written shard is named by some index of that range.
C10_IndexRange ==
    main_pc = "returned" =>
        LET indices == 0..(__len__(torch_dir) - 1)
        IN  /\ \A i \in indices :
                  __getitem__(torch_dir, i).error # "FileNotFoundError"
            /\ \A name \in DOMAIN torch_dir :
                  \E i \in indices : LoadName(i) = name

----------------------------------------------------------------------------
(* An Annealer and its successive __next__ calls *)

Values == {Frac(n, 1) : n \in (-MaxValue)..MaxValue}

InitAnnealer ==
    /\ \E init \in Values, final \in Values, steps \in 1..MaxSteps :
          annealer = NewAnnealer(init, final, steps)
    /\ returned = <<>>
    /\ fn_in = [kind |-> "none"]
    /\ fn_out = [op |-> "none"]
    /\ dataset_name = "shepard_metzler_5_parts"
    /\ batch_size = 1
    /\ num_proc = 1
    /\ tf_dir = <<>>
    /\ record_list = <<>>
    /\ torch_dir = <<>>
    /\ main_pc = "none"
    /\ taskqueue = <<>>
    /\ worker = [w \in 1..1 |-> Idle]
    /\ number_left = 0
    /\ success = TRUE
    /\ io_faults = 0
    /\ loaded = NoResult

\* Annealer.__next__
AnnealerNext ==
    /\ annealer.t < MaxCalls
    /\ LET t == annealer.t + 1
           value == AnnealValue(annealer, t)
       IN  /\ annealer' = [annealer EXCEPT !.t = t, !.current = value]
           /\ returned' = Append(returned, value)
    /\ UNCHANGED <<pipe_vars, fn_in, fn_out>>

NextAnnealer == AnnealerNext

SpecAnnealer == InitAnnealer /\ [][NextAnnealer]_vars

\* C11: for an Annealer built with init >= final and steps >= 1, the values
\* of successive __next__ calls are non-increasing, never below final, and
\* equal to final on every call numbered k >= steps (calls counted from 1);
\* after each call the field current equals the value just returned.
C11_Annealer ==
    (FracLeq(annealer.final, annealer.init) /\ annealer.steps >= 1) =>
        /\ Len(returned) = annealer.t
        /\ \A k \in DOMAIN returned :
              /\ FracLeq(annealer.final, returned[k])
              /\ k > 1 => FracLeq(returned[k], returned[k - 1])
              /\ k >= annealer.steps => FracEq(returned[k], annealer.final)
        /\ returned # <<>> => annealer.current = returned[Len(returned)]

\* an Annealer that went down strictly, reached final at call `steps' and was
\* called again after that
C11_Witness ==
    /\ annealer.steps >= 3
    /\ Len(returned) > annealer.steps
    /\ ~FracLeq(returned[1], returned[2])
    /\ ~FracLeq(returned[annealer.steps - 1], annealer.final)
    /\ FracEq(returned[annealer.steps], annealer.final)
    /\ annealer.current = returned[Len(returned)]

====
